---------------------------- MODULE Spec2Model ----------------------------
(***************************************************************************)
(* Model of music21/documentation/library/writers.py: the ReST writers of   *)
(* the documentation build.                                                 *)
(*                                                                          *)
(* Text is modelled as sequences of one-character strings, so that the      *)
(* prefix, substring, regular-expression and whitespace tests of the code   *)
(* are computed on characters as the code computes them.                    *)
(*                                                                          *)
(* Two specifications:                                                      *)
(*   Spec   the writers acting on a file system: ReSTWriter.write,          *)
(*          convertOneNotebook, and IPythonNotebookReSTWriter.run           *)
(*   SpecT  the line rewriting of convertOneNotebook (lines 200-248), one   *)
(*          loop iteration per step, over bounded raw line sequences        *)
(***************************************************************************)
EXTENDS Integers, Sequences, FiniteSets, TLC

VARIABLES
    \* ---- file system and console (Spec) ----
    fs,                 \* path -> NoFile or File(content, mtime)
    dirs,               \* asset directory path -> NoDir or Dir(file names)
    clock,              \* the file system's current time stamp
    last,               \* the operation just performed: its arguments, how it ended,
                        \* whether it ran the converter, the files it wrote, and its
                        \* target file as it found it
    runPc,              \* position of IPythonNotebookReSTWriter.run
    runIndex,           \* number of notebooks of the enumeration already taken by run's loop
    returned,           \* run: what convertOneNotebook did for each notebook taken so far
    cleaned,            \* run: the notebooks whose asset cleanup has completed
    out,                \* run: the lines printed so far
    \* ---- line rewriting (SpecT) ----
    notebookFileNameWithoutExtension,
    oldLines,           \* the raw lines read back from the converter's output
    newLines,           \* result of the scanning pass
    currentLineNumber,  \* cursor of the scanning pass (0-based, as in the code)
    lines,              \* result of the blank-line pass
    pairIndex,          \* number of pairs the blank-line pass has consumed
    pc                  \* "scan", "pairs" or "done"

fsVars == <<fs, dirs, clock, last, runPc, runIndex, returned, cleaned, out>>
trVars == <<notebookFileNameWithoutExtension, oldLines, newLines,
            currentLineNumber, lines, pairIndex, pc>>
vars == <<fs, dirs, clock, last, runPc, runIndex, returned, cleaned, out,
          notebookFileNameWithoutExtension, oldLines, newLines,
          currentLineNumber, lines, pairIndex, pc>>

(***************************************************************************)
(* Bounds of the model.                                                     *)
(***************************************************************************)
\* longest raw line sequence the scanning pass is run on
MaxLines == 3
\* last time stamp the file system clock reaches
MaxClock == 2

(***************************************************************************)
(* Characters and strings.                                                  *)
(***************************************************************************)
\* str.isspace() on one character
IsSpace(c) == c \in {" ", "\t", "\n"}

Digits == {"0", "1", "2", "3", "4", "5", "6", "7", "8", "9"}

\* the backquote character (a TLA+ string cannot hold it)
Backtick == "<backquote>"

\* s.startswith(prefix)
StartsWith(s, prefix) ==
    /\ Len(prefix) <= Len(s)
    /\ SubSeq(s, 1, Len(prefix)) = prefix

\* s.endswith(suffix)
EndsWith(s, suffix) ==
    /\ Len(suffix) <= Len(s)
    /\ SubSeq(s, Len(s) - Len(suffix) + 1, Len(s)) = suffix

\* sub occurs in s starting at position i
OccursAt(s, sub, i) ==
    /\ i >= 1
    /\ i + Len(sub) - 1 <= Len(s)
    /\ SubSeq(s, i, i + Len(sub) - 1) = sub

\* sub in s
Contains(s, sub) == \E i \in 1..(Len(s) + 1) : OccursAt(s, sub, i)

\* len(s.strip()) is nonzero: some character of s is not whitespace
HasText(s) == \E i \in 1..Len(s) : ~IsSpace(s[i])

\* s[0].isspace(), evaluated only on a line that HasText (the code's `and` chain)
Indented(s) == Len(s) > 0 /\ IsSpace(s[1])

\* position of the last occurrence of character c in s, 0 when there is none
LastIndexOf(s, c) ==
    IF \E i \in 1..Len(s) : s[i] = c
    THEN CHOOSE i \in 1..Len(s) : s[i] = c /\ \A j \in (i + 1)..Len(s) : s[j] # c
    ELSE 0

\* position of the first occurrence of character c in s at or after from, 0 when none
IndexFrom(s, c, from) ==
    IF \E i \in from..Len(s) : s[i] = c
    THEN CHOOSE i \in from..Len(s) : s[i] = c /\ \A j \in from..(i - 1) : s[j] # c
    ELSE 0

\* sep.join(seq)
RECURSIVE Join(_, _)
Join(seq, sep) ==
    IF Len(seq) = 0 THEN << >>
    ELSE IF Len(seq) = 1 THEN seq[1]
    ELSE seq[1] \o sep \o Join(Tail(seq), sep)

\* s.splitlines(): split at line ends, no empty last line after a final line end
RECURSIVE SplitLines(_)
SplitLines(s) ==
    IF Len(s) = 0 THEN << >>
    ELSE LET k == IndexFrom(s, "\n", 1) IN
         IF k = 0 THEN <<s>>
         ELSE <<SubSeq(s, 1, k - 1)>> \o SplitLines(SubSeq(s, k + 1, Len(s)))

NewLine == <<"\n">>

(***************************************************************************)
(* Paths: os.path.basename, os.path.dirname, os.path.splitext,              *)
(* os.path.join on absolute POSIX paths.                                    *)
(***************************************************************************)
Basename(path) == SubSeq(path, LastIndexOf(path, "/") + 1, Len(path))

Dirname(path) ==
    LET k == LastIndexOf(path, "/") IN
    IF k <= 1 THEN SubSeq(path, 1, k) ELSE SubSeq(path, 1, k - 1)

\* os.path.splitext(name)[0]: cut at the last dot, unless the name only leads with dots
SplitextRoot(name) ==
    LET k == LastIndexOf(name, ".") IN
    IF k > 1 /\ \E j \in 1..(k - 1) : name[j] # "." THEN SubSeq(name, 1, k - 1)
    ELSE name

PathJoin(dir, name) ==
    IF Len(dir) > 0 /\ dir[Len(dir)] = "/" THEN dir \o name
    ELSE dir \o <<"/">> \o name

NameWithoutExtension(path) == SplitextRoot(Basename(path))

ImageFileDirectoryName(path) == NameWithoutExtension(path) \o <<"_", "f", "i", "l", "e", "s">>

ImageFileDirectoryPath(path) == PathJoin(Dirname(path), ImageFileDirectoryName(path))

RstFilePath(path) == PathJoin(Dirname(path), NameWithoutExtension(path) \o <<".", "r", "s", "t">>)

CheckpointMark == <<"-", "c", "h", "e", "c", "k", "p", "o", "i", "n", "t">>

\* '-checkpoint' in ipythonNotebookFilePath
IsCheckpoint(path) == Contains(path, CheckpointMark)

(***************************************************************************)
(* The line rewriting of convertOneNotebook.                                *)
(***************************************************************************)
PromptStart == <<"I", "n", "[">>
ImageDirective == <<".", ".", " ", "i", "m", "a", "g", "e", ":", ":", " ">>
IgnoreMarker == <<"#", " ", "i", "g", "n", "o", "r", "e", " ", "t", "h", "i", "s">>
ParsedLiteralMarker == <<".", ".", " ", "p", "a", "r", "s", "e", "d", "-", "l", "i", "t", "e", "r", "a", "l", ":", ":">>
ResultClassLine == <<" ", " ", " ", ":", "c", "l", "a", "s", "s", ":", " ", "i", "p", "y", "t", "h", "o", "n", "-", "r", "e", "s", "u", "l", "t">>
BlankLine == << >>
Roles == <<<<"c", "l", "a", "s", "s">>, <<"r", "e", "f">>, <<"f", "u", "n", "c">>, <<"m", "e", "t", "h">>>>

\* ipythonPromptPattern.match(line): ^In\[[\d ]+\]:
IsPrompt(line) ==
    /\ StartsWith(line, PromptStart)
    /\ \E k \in 1..Len(line) :
          /\ Len(PromptStart) + k + 2 <= Len(line)
          /\ \A j \in 1..k : line[Len(PromptStart) + j] \in Digits \cup {" "}
          /\ line[Len(PromptStart) + k + 1] = "]"
          /\ line[Len(PromptStart) + k + 2] = ":"

\* the newLines the code starts from: the anchor line of the notebook
AnchorLine(name) == <<".", ".", " ", "_">> \o name \o <<":">>

\* A match of mangledInternalReference, :(class|ref|func|meth): then one or two
\* backquotes, a shortest argument, and one or two backquotes,
\* starting at position i of line: [ok, role, arg, end], end the last position matched.
RefMatchAt(line, i) ==
    LET no == [ok |-> FALSE, role |-> << >>, arg |-> << >>, end |-> 0]
        rs == {r \in 1..Len(Roles) : OccursAt(line, <<":">> \o Roles[r] \o <<":", Backtick>>, i)}
    IN  IF rs = {} THEN no
        ELSE
        LET r == CHOOSE x \in rs : \A y \in rs : x <= y
            p == i + Len(Roles[r]) + 3        \* first position after the opening backquote
            \* the argument and the closing backquotes, matched from position q
            close(q) == IndexFrom(line, Backtick, q)
            finish(q) ==
                LET k == close(q) IN
                [ok |-> TRUE, role |-> Roles[r], arg |-> SubSeq(line, q, k - 1),
                 end |-> IF k + 1 <= Len(line) /\ line[k + 1] = Backtick THEN k + 1 ELSE k]
        IN  \* the optional second backquote is taken when the rest still matches after it
            IF p <= Len(line) /\ line[p] = Backtick /\ close(p + 1) # 0 THEN finish(p + 1)
            ELSE IF close(p) # 0 THEN finish(p)
            ELSE no

\* mangledInternalReference.sub(...): every match becomes :role: and the argument
\* in single backquotes; scanning from position i
RECURSIVE SubRefsFrom(_, _)
SubRefsFrom(line, i) ==
    IF i > Len(line) THEN << >>
    ELSE LET m == RefMatchAt(line, i) IN
         IF m.ok
         THEN <<":">> \o m.role \o <<":", Backtick>> \o m.arg \o <<Backtick>> \o SubRefsFrom(line, m.end + 1)
         ELSE <<line[i]>> \o SubRefsFrom(line, i + 1)

FixMangledReferences(line) == SubRefsFrom(line, 1)

\* a scanning loop that drops the prompt line alone
ScanStepPromptAlone(old, name, cur, new) ==
    LET currentLine == old[cur + 1] IN
    IF IsPrompt(currentLine)
    THEN [currentLineNumber |-> cur + 1, newLines |-> new]
    ELSE IF StartsWith(currentLine, ImageDirective)
    THEN LET imageFileName == SubSeq(currentLine, Len(ImageDirective) + 1, Len(currentLine))
             newImageDirective ==
                 ImageDirective \o (name \o <<"_", "f", "i", "l", "e", "s">>) \o <<"/">> \o imageFileName
         IN  [currentLineNumber |-> cur + 1,
              newLines |-> Append(new, IF ~Contains(currentLine, <<"/">>)
                                       THEN newImageDirective
                                       ELSE currentLine)]
    ELSE IF Contains(currentLine, IgnoreMarker)
    THEN [currentLineNumber |-> cur + 2, newLines |-> new]
    ELSE [currentLineNumber |-> cur + 1,
          newLines |-> Append(new, FixMangledReferences(currentLine))]

\* a scanning loop that puts the asset directory before every image file name
ScanStepEveryImage(old, name, cur, new) ==
    LET currentLine == old[cur + 1] IN
    IF IsPrompt(currentLine)
    THEN [currentLineNumber |-> cur + 2, newLines |-> new]
    ELSE IF StartsWith(currentLine, ImageDirective)
    THEN LET imageFileName == SubSeq(currentLine, Len(ImageDirective) + 1, Len(currentLine))
             newImageDirective ==
                 ImageDirective \o (name \o <<"_", "f", "i", "l", "e", "s">>) \o <<"/">> \o imageFileName
         IN  [currentLineNumber |-> cur + 1,
              newLines |-> Append(new, newImageDirective)]
    ELSE IF Contains(currentLine, IgnoreMarker)
    THEN [currentLineNumber |-> cur + 2, newLines |-> new]
    ELSE [currentLineNumber |-> cur + 1,
          newLines |-> Append(new, FixMangledReferences(currentLine))]

\* One iteration of the scanning loop (the body of `while currentLineNumber <
\* len(oldLines)`), from cursor cur with result new so far: the cursor and result after it.
ScanStep(old, name, cur, new) ==
    LET currentLine == old[cur + 1] IN
    IF IsPrompt(currentLine)
    THEN [currentLineNumber |-> cur + 2, newLines |-> new]
    ELSE IF StartsWith(currentLine, ImageDirective)
    THEN LET imageFileName == SubSeq(currentLine, Len(ImageDirective) + 1, Len(currentLine))
             newImageDirective ==
                 ImageDirective \o (name \o <<"_", "f", "i", "l", "e", "s">>) \o <<"/">> \o imageFileName
         IN  [currentLineNumber |-> cur + 1,
              newLines |-> Append(new, IF ~Contains(currentLine, <<"/">>)
                                       THEN newImageDirective
                                       ELSE currentLine)]
    ELSE IF Contains(currentLine, IgnoreMarker)
    THEN [currentLineNumber |-> cur + 2, newLines |-> new]
    ELSE [currentLineNumber |-> cur + 1,
          newLines |-> Append(new, FixMangledReferences(currentLine))]

\* a blank-line loop that classifies the first line of the pair, not the second
PairStepClassifiesFirst(first, second) ==
    (IF HasText(first) /\ Indented(first) /\ HasText(second) /\ ~Indented(second)
     THEN <<BlankLine>> ELSE << >>)
    \o <<second>>
    \o (IF Contains(first, ParsedLiteralMarker) THEN <<ResultClassLine>> ELSE << >>)

\* a blank-line loop that does not ask the first line of the pair to have text
PairStepAnyIndent(first, second) ==
    (IF Indented(first) /\ HasText(second) /\ ~Indented(second)
     THEN <<BlankLine>> ELSE << >>)
    \o <<second>>
    \o (IF Contains(second, ParsedLiteralMarker) THEN <<ResultClassLine>> ELSE << >>)

\* One iteration of the blank-line loop for the pair (first, second): what it appends
PairStep(first, second) ==
    (IF HasText(first) /\ Indented(first) /\ HasText(second) /\ ~Indented(second)
     THEN <<BlankLine>> ELSE << >>)
    \o <<second>>
    \o (IF Contains(second, ParsedLiteralMarker) THEN <<ResultClassLine>> ELSE << >>)

\* the whole scanning loop
RECURSIVE ScanFrom(_, _, _, _)
ScanFrom(old, name, cur, new) ==
    IF cur >= Len(old) THEN new
    ELSE LET s == ScanStep(old, name, cur, new)
         IN  ScanFrom(old, name, s.currentLineNumber, s.newLines)

\* the whole blank-line loop over the pairs i, i+1 of new, appending to acc
RECURSIVE NormalizeFrom(_, _, _)
NormalizeFrom(new, i, acc) ==
    IF i >= Len(new) THEN acc
    ELSE NormalizeFrom(new, i + 1, acc \o PairStep(new[i], new[i + 1]))

\* lines 200-248: from the raw lines to the lines that are written
Transform(old, name) ==
    LET new == ScanFrom(old, name, 0, <<AnchorLine(name)>>)
    IN  NormalizeFrom(new, 1, <<new[1]>>)

(***************************************************************************)
(* The files of the model.                                                  *)
(***************************************************************************)
\* documentation.IPythonNotebookIterator(): the notebooks, in enumeration order
NotebookPaths == <<<<"/", "d", "/", "u", ".", "i", "p", "y", "n", "b">>,
                   <<"/", "d", "/", "u", "-", "c", "h", "e", "c", "k", "p", "o", "i", "n", "t", ".", "i", "p", "y", "n", "b">>,
                   <<"/", "d", "/", "n", "b", ".", "i", "p", "y", "n", "b">>>>

Notebooks == {NotebookPaths[i] : i \in 1..Len(NotebookPaths)}

\* the files ReSTWriter.write is called on (module reference and corpus files)
WritePaths == {<<"/", "m", "/", "i", "n", "d", "e", "x", ".", "r", "s", "t">>,
               <<"/", "m", "/", "n", "o", "t", "e", ".", "r", "s", "t">>}

\* rstFilePath, imageFileDirectoryPath and the checkpoint test of lines 175-190,
\* worked out once for each notebook
rstFilePath == [p \in Notebooks |-> RstFilePath(p)]
imageFileDirectoryPath == [p \in Notebooks |-> ImageFileDirectoryPath(p)]
CheckpointPaths == {p \in Notebooks : IsCheckpoint(p)}

FilePaths == Notebooks \cup {rstFilePath[p] : p \in Notebooks} \cup WritePaths

AssetDirs == {imageFileDirectoryPath[p] : p \in Notebooks}

\* a path with no file, and a file with its text and modification time
NoFile == [exists |-> FALSE, content |-> << >>, mtime |-> 0]
File(content, mtime) == [exists |-> TRUE, content |-> content, mtime |-> mtime]

\* a path with no directory, and a directory with the names of its files
NoDir == [exists |-> FALSE, files |-> {}]
Dir(files) == [exists |-> TRUE, files |-> files]

\* the raw lines a conversion can produce
RawLineSet == {
    <<"I", "n", "[", "1", "]", ":">>,
    <<"I", "n", "[", " ", "2", "]", ":", " ", "x">>,
    <<"c", "o", "d", "e">>,
    <<"r", "e", "s", "u", "l", "t">>,
    <<".", ".", " ", "i", "m", "a", "g", "e", ":", ":", " ", "f", "o", "o", ".", "p", "n", "g">>,
    <<".", ".", " ", "i", "m", "a", "g", "e", ":", ":", " ", "s", "u", "b", "/", "f", "o", "o", ".", "p", "n", "g">>,
    <<"#", " ", "i", "g", "n", "o", "r", "e", " ", "t", "h", "i", "s">>,
    <<" ", " ", " ", " ", "c", "o", "d", "e">>,
    <<"N", "e", "x", "t", " ", "p", "a", "r", "a", "g", "r", "a", "p", "h">>,
    BlankLine,
    <<" ", " ">>,
    <<".", ".", " ", "p", "a", "r", "s", "e", "d", "-", "l", "i", "t", "e", "r", "a", "l", ":", ":">>,
    <<":", "c", "l", "a", "s", "s", ":", Backtick, Backtick, "A", Backtick, Backtick>> }

RECURSIVE SeqsUpTo(_, _)
SeqsUpTo(S, n) ==
    IF n = 0 THEN {<< >>}
    ELSE LET shorter == SeqsUpTo(S, n - 1)
         IN  shorter \cup {Append(s, x) : s \in {t \in shorter : Len(t) = n - 1}, x \in S}

RawLineSequences == SeqsUpTo(RawLineSet, MaxLines)

NoOperation ==
    [op |-> "none", path |-> << >>, text |-> << >>, result |-> "none",
     nbconvert |-> FALSE, written |-> {}, before |-> NoFile]

\* the file system side at rest, as SpecT keeps it
FsAtRest ==
    /\ fs = [p \in FilePaths |-> NoFile]
    /\ dirs = [d \in AssetDirs |-> NoDir]
    /\ clock = 0
    /\ last = NoOperation
    /\ runPc = "idle"
    /\ runIndex = 0
    /\ returned = << >>
    /\ cleaned = {}
    /\ out = << >>

(***************************************************************************)
(* SpecT: the line rewriting, one loop iteration per step.                  *)
(***************************************************************************)
InitT ==
    /\ FsAtRest
    /\ \E p \in Notebooks \ CheckpointPaths :
          notebookFileNameWithoutExtension = NameWithoutExtension(p)
    /\ oldLines \in RawLineSequences
    /\ newLines = <<AnchorLine(notebookFileNameWithoutExtension)>>
    /\ currentLineNumber = 0
    /\ lines = << >>
    /\ pairIndex = 0
    /\ pc = "scan"

Scanning == pc = "scan" /\ currentLineNumber < Len(oldLines)

CurrentLine == oldLines[currentLineNumber + 1]

\* one iteration of the while loop
ScanIteration ==
    LET s == ScanStep(oldLines, notebookFileNameWithoutExtension,
                      currentLineNumber, newLines)
    IN  /\ currentLineNumber' = s.currentLineNumber
        /\ newLines' = s.newLines
        /\ UNCHANGED <<notebookFileNameWithoutExtension, oldLines, lines, pairIndex, pc>>
        /\ UNCHANGED fsVars

\* line 208: the cursor is on an input prompt
ScanPrompt == Scanning /\ IsPrompt(CurrentLine) /\ ScanIteration

\* line 212: the cursor is on an image directive
ScanImage ==
    /\ Scanning
    /\ ~IsPrompt(CurrentLine)
    /\ StartsWith(CurrentLine, ImageDirective)
    /\ ScanIteration

\* line 223: the cursor is on a line with the ignore marker
ScanIgnore ==
    /\ Scanning
    /\ ~IsPrompt(CurrentLine)
    /\ ~StartsWith(CurrentLine, ImageDirective)
    /\ Contains(CurrentLine, IgnoreMarker)
    /\ ScanIteration

\* line 227: any other line
ScanOther ==
    /\ Scanning
    /\ ~IsPrompt(CurrentLine)
    /\ ~StartsWith(CurrentLine, ImageDirective)
    /\ ~Contains(CurrentLine, IgnoreMarker)
    /\ ScanIteration

\* the while loop ends; line 238
ScanEnd ==
    /\ pc = "scan"
    /\ currentLineNumber >= Len(oldLines)
    /\ lines' = <<newLines[1]>>
    /\ pairIndex' = 0
    /\ pc' = "pairs"
    /\ UNCHANGED <<notebookFileNameWithoutExtension, oldLines, newLines, currentLineNumber>>
    /\ UNCHANGED fsVars

\* one iteration of the for loop of lines 239-248
NormalizePair ==
    /\ pc = "pairs"
    /\ pairIndex + 1 < Len(newLines)
    /\ lines' = lines \o PairStep(newLines[pairIndex + 1], newLines[pairIndex + 2])
    /\ pairIndex' = pairIndex + 1
    /\ UNCHANGED <<notebookFileNameWithoutExtension, oldLines, newLines,
                   currentLineNumber, pc>>
    /\ UNCHANGED fsVars

\* the for loop ends: lines is what is written
NormalizeEnd ==
    /\ pc = "pairs"
    /\ pairIndex + 1 >= Len(newLines)
    /\ pc' = "done"
    /\ UNCHANGED <<notebookFileNameWithoutExtension, oldLines, newLines,
                   currentLineNumber, lines, pairIndex>>
    /\ UNCHANGED fsVars

NextT ==
    \/ ScanPrompt
    \/ ScanImage
    \/ ScanIgnore
    \/ ScanOther
    \/ ScanEnd
    \/ NormalizePair
    \/ NormalizeEnd

SpecT == InitT /\ [][NextT]_vars

(***************************************************************************)
(* The file system operations of the writers.                               *)
(***************************************************************************)
\* what the writers hand to write(): newline-joined lines
Contents == {<< >>,
             <<"a">>,
             <<"a", "\n", "b">>}

\* the text of a notebook file; the writers never read it
NotebookText == <<"{", "}">>

\* the raw ReST text the external converter can leave in the .rst file
ConverterOutputs == {
    <<"I", "n", "[", "1", "]", ":", "\n", "c", "o", "d", "e", "\n", "r", "e", "s", "u", "l", "t", "\n">>,
    <<".", ".", " ", "p", "a", "r", "s", "e", "d", "-", "l", "i", "t", "e", "r", "a", "l", ":", ":", "\n", "\n", " ", " ", " ", " ", "c", "o", "d", "e", "\n", "N", "e", "x", "t", " ", "p", "a", "r", "a", "g", "r", "a", "p", "h", "\n">> }

\* the files the external converter can leave in the asset directory
AssetNames == {<<"o", ".", "p", "n", "g">>,
               <<"o", ".", "t", "e", "x", "t">>}

TextExtension == <<".", "t", "e", "x", "t">>

\* os.path.exists(path)
Exists(path) == fs[path].exists

\* an operation with nothing but its name
Did(op) == [NoOperation EXCEPT !.op = op]

\* the clock of the file system advances
Tick ==
    /\ clock < MaxClock
    /\ clock' = clock + 1
    /\ last' = Did("tick")
    /\ UNCHANGED <<fs, dirs, runPc, runIndex, returned, cleaned, out>>
    /\ UNCHANGED trVars

\* a write() that skips the comparison with the file
ShouldWriteAlways(filePath, rst) == TRUE

\* lines 39-44: write() decides to write
ShouldWrite(filePath, rst) ==
    ~(Exists(filePath) /\ rst = fs[filePath].content)

\* ReSTWriter.write(filePath, rst), lines 34-50
Write(filePath, rst) ==
    /\ runPc = "idle"
    /\ IF ShouldWrite(filePath, rst)
       THEN /\ fs' = [fs EXCEPT ![filePath] = File(rst, clock)]
            /\ last' = [op |-> "write", path |-> filePath, text |-> rst,
                        result |-> "WROTE", nbconvert |-> FALSE,
                        written |-> {filePath}, before |-> fs[filePath]]
       ELSE /\ fs' = fs
            /\ last' = [op |-> "write", path |-> filePath, text |-> rst,
                        result |-> "SKIPPED", nbconvert |-> FALSE,
                        written |-> {}, before |-> fs[filePath]]
    /\ UNCHANGED <<dirs, clock, runPc, runIndex, returned, cleaned, out>>
    /\ UNCHANGED trVars

\* a staleness test that also skips on equal modification times
IsStaleOrEqual(path) ==
    /\ Exists(rstFilePath[path])
    /\ fs[rstFilePath[path]].mtime >= fs[path].mtime

\* lines 193-195: the converted .rst exists and is newer than the notebook
IsStale(path) ==
    /\ Exists(rstFilePath[path])
    /\ fs[rstFilePath[path]].mtime > fs[path].mtime

\* a convertOneNotebook that looks for the file before it looks at the name
ConvertOutcomeExistenceFirst(path) ==
    IF ~Exists(path) THEN "raise"
    ELSE IF path \in CheckpointPaths THEN "False"
    ELSE IF IsStale(path) THEN "False"
    ELSE "True"

\* a convertOneNotebook that skips a missing notebook
ConvertOutcomeMissingSkipped(path) ==
    IF path \in CheckpointPaths THEN "False"
    ELSE IF ~Exists(path) THEN "False"
    ELSE IF IsStale(path) THEN "False"
    ELSE "True"

\* lines 175-197: which way convertOneNotebook goes
ConvertOutcome(path) ==
    IF path \in CheckpointPaths THEN "False"
    ELSE IF ~Exists(path) THEN "raise"
    ELSE IF IsStale(path) THEN "False"
    ELSE "True"

\* runNBConvert, lines 263-268: the external converter leaves raw ReST in the .rst file
\* beside the notebook; the files after it
NBConvertFiles(path, raw) ==
    [fs EXCEPT ![rstFilePath[path]] = File(raw, clock)]

\* and it may create or fill the notebook's asset directory; the directories after it
NBConvertDirs(path, assets) ==
    IF ~assets.exists THEN dirs
    ELSE [dirs EXCEPT ![imageFileDirectoryPath[path]] = Dir(@.files \cup assets.files)]

\* lines 198-251 on the converter's output raw: the text written back to the .rst file
Rewritten(path, raw) ==
    Join(Transform(SplitLines(raw), NameWithoutExtension(path)), NewLine)

\* Rewritten, tabulated over the notebooks and the converter's outputs
RewrittenText ==
    [path \in Notebooks |-> [raw \in ConverterOutputs |-> Rewritten(path, raw)]]

\* convertOneNotebook(path), lines 166-253; last'.result is how it ends
ConvertOneNotebook(path) ==
    LET result == ConvertOutcome(path) IN
    IF result = "True"
    THEN \E raw \in ConverterOutputs, assets \in {NoDir, Dir(AssetNames)} :
            LET converted == NBConvertFiles(path, raw)
                rst == rstFilePath[path]
            IN
            \* the code reads the file the converter wrote and writes it again
            /\ fs' = [converted EXCEPT
                         ![rst] = File(RewrittenText[path][converted[rst].content], clock)]
            /\ dirs' = NBConvertDirs(path, assets)
            /\ last' = [op |-> "convert", path |-> path, text |-> << >>,
                        result |-> result, nbconvert |-> TRUE,
                        written |-> {rstFilePath[path]},
                        before |-> fs[rstFilePath[path]]]
    ELSE /\ UNCHANGED <<fs, dirs>>
         /\ last' = [op |-> "convert", path |-> path, text |-> << >>,
                     result |-> result, nbconvert |-> FALSE,
                     written |-> {}, before |-> fs[rstFilePath[path]]]

\* convertOneNotebook called on its own
ConvertCall(path) ==
    /\ runPc = "idle"
    /\ ConvertOneNotebook(path)
    /\ UNCHANGED <<clock, runPc, runIndex, returned, cleaned, out>>
    /\ UNCHANGED trVars

\* the author saves a notebook
SaveNotebook(path) ==
    /\ runPc = "idle"
    /\ path \notin CheckpointPaths
    /\ fs' = [fs EXCEPT ![path] = File(NotebookText, clock)]
    /\ last' = Did("save")
    /\ UNCHANGED <<dirs, clock, runPc, runIndex, returned, cleaned, out>>
    /\ UNCHANGED trVars

\* the author removes a notebook
RemoveNotebook(path) ==
    /\ runPc = "idle"
    /\ path \notin CheckpointPaths
    /\ Exists(path)
    /\ fs' = [fs EXCEPT ![path] = NoFile]
    /\ last' = Did("remove")
    /\ UNCHANGED <<dirs, clock, runPc, runIndex, returned, cleaned, out>>
    /\ UNCHANGED trVars

(***************************************************************************)
(* IPythonNotebookReSTWriter.run, lines 131-143, one step per call it makes.*)
(***************************************************************************)
\* the notebook the loop is on
RunPath == NotebookPaths[runIndex + 1]

Printed(kind, path) == [kind |-> kind, path |-> path]

\* lines 132-134: the notebooks are enumerated
RunStart ==
    /\ runPc = "idle"
    /\ runPc' = "loop"
    /\ runIndex' = 0
    /\ returned' = << >>
    /\ cleaned' = {}
    /\ out' = << >>
    /\ last' = Did("run")
    /\ UNCHANGED <<fs, dirs, clock>>
    /\ UNCHANGED trVars

\* a loop that reports a notebook whose conversion raised as skipped, and goes on
RunConvertKeepsGoing ==
    /\ runPc = "loop"
    /\ runIndex < Len(NotebookPaths)
    /\ ConvertOneNotebook(RunPath)
    /\ LET result == last'.result IN
          /\ returned' = Append(returned, result)
          /\ runPc' = IF result = "True" THEN "cleanup" ELSE "loop"
          /\ runIndex' = IF result = "True" THEN runIndex ELSE runIndex + 1
          /\ out' = IF result = "True" THEN out
                    ELSE Append(out, Printed("SKIPPED", RunPath))
    /\ UNCHANGED <<clock, cleaned>>
    /\ UNCHANGED trVars

\* lines 135-137 and 141-143: the next notebook is converted; a skip is reported
RunConvert ==
    /\ runPc = "loop"
    /\ runIndex < Len(NotebookPaths)
    /\ ConvertOneNotebook(RunPath)
    /\ LET result == last'.result IN
          /\ returned' = Append(returned, result)
          /\ runPc' = CASE result = "True" -> "cleanup"
                        [] result = "False" -> "loop"
                        [] result = "raise" -> "aborted"
          /\ runIndex' = IF result = "False" THEN runIndex + 1 ELSE runIndex
          /\ out' = IF result = "False" THEN Append(out, Printed("SKIPPED", RunPath))
                    ELSE out
    /\ UNCHANGED <<clock, cleaned>>
    /\ UNCHANGED trVars

\* what _cleanupNotebookAssets leaves of a directory's files, lines 158-164
AfterCleanup(files) == {f \in files : ~EndsWith(f, TextExtension)}

\* line 138: _cleanupNotebookAssets, lines 147-164; os.listdir raises without the directory
RunCleanup ==
    /\ runPc = "cleanup"
    /\ LET d == imageFileDirectoryPath[RunPath] IN
       IF ~dirs[d].exists
       THEN /\ runPc' = "aborted"
            /\ UNCHANGED <<dirs, cleaned>>
       ELSE /\ dirs' = [dirs EXCEPT ![d] = Dir(AfterCleanup(@.files))]
            /\ cleaned' = cleaned \cup {RunPath}
            /\ runPc' = "report"
    /\ last' = Did("cleanup")
    /\ UNCHANGED <<fs, clock, runIndex, returned, out>>
    /\ UNCHANGED trVars

\* lines 139-140: the conversion is reported
RunReport ==
    /\ runPc = "report"
    /\ out' = Append(out, Printed("WROTE", RunPath))
    /\ runIndex' = runIndex + 1
    /\ runPc' = "loop"
    /\ last' = Did("report")
    /\ UNCHANGED <<fs, dirs, clock, returned, cleaned>>
    /\ UNCHANGED trVars

\* the loop has taken every notebook
RunEnd ==
    /\ runPc = "loop"
    /\ runIndex = Len(NotebookPaths)
    /\ runPc' = "done"
    /\ last' = Did("end")
    /\ UNCHANGED <<fs, dirs, clock, runIndex, returned, cleaned, out>>
    /\ UNCHANGED trVars

\* run has returned or raised: control is back at the caller
RunReturn ==
    /\ runPc \in {"done", "aborted"}
    /\ runPc' = "idle"
    /\ runIndex' = 0
    /\ returned' = << >>
    /\ cleaned' = {}
    /\ out' = << >>
    /\ last' = Did("return")
    /\ UNCHANGED <<fs, dirs, clock>>
    /\ UNCHANGED trVars

\* the line rewriting at rest, as Spec and SpecW keep it
TransformAtRest ==
    /\ notebookFileNameWithoutExtension = << >>
    /\ oldLines = << >>
    /\ newLines = << >>
    /\ currentLineNumber = 0
    /\ lines = << >>
    /\ pairIndex = 0
    /\ pc = "done"

(***************************************************************************)
(* Spec: the notebook writer and the notebooks' author.                     *)
(***************************************************************************)
Init ==
    /\ fs \in [FilePaths -> {NoFile, File(NotebookText, 0)}]
    /\ \A p \in FilePaths \ Notebooks : fs[p] = NoFile
    /\ dirs = [d \in AssetDirs |-> NoDir]
    /\ clock = 0
    /\ last = NoOperation
    /\ runPc = "idle"
    /\ runIndex = 0
    /\ returned = << >>
    /\ cleaned = {}
    /\ out = << >>
    /\ TransformAtRest

Next ==
    \/ Tick
    \/ \E p \in Notebooks : SaveNotebook(p)
    \/ \E p \in Notebooks : RemoveNotebook(p)
    \/ \E p \in Notebooks : ConvertCall(p)
    \/ RunStart
    \/ RunConvert
    \/ RunCleanup
    \/ RunReport
    \/ RunEnd
    \/ RunReturn

Spec == Init /\ [][Next]_vars

(***************************************************************************)
(* SpecW: ReSTWriter.write on the reference files.                          *)
(***************************************************************************)
InitW ==
    /\ FsAtRest
    /\ TransformAtRest

NextW ==
    \/ Tick
    \/ \E p \in WritePaths, rst \in Contents : Write(p, rst)

SpecW == InitW /\ [][NextW]_vars

(***************************************************************************)
(* Properties of ReSTWriter.write (SpecW).                                  *)
(***************************************************************************)
\* the step is a call of op
Called(op) == last'.op = op

\* C1: write(path, C) modifies the file and reports WROTE if and only if the file
\* did not exist or its content differed from C; when the content equals C it reports
\* SKIPPED and leaves content and modification time as they were; either way the file
\* holds exactly C afterwards.
WriteOnlyWhenDifferent ==
    [][Called("write") =>
        LET p == last'.path
            C == last'.text
            differs == ~fs[p].exists \/ fs[p].content # C
        IN  /\ (last'.result = "WROTE") <=> differs
            /\ (last'.result = "SKIPPED") <=> ~differs
            /\ (p \in last'.written) <=> differs
            /\ differs => fs'[p] = File(C, clock)
            /\ ~differs => fs'[p] = fs[p]
            /\ fs'[p].exists /\ fs'[p].content = C
            /\ \A q \in FilePaths \ {p} : fs'[q] = fs[q]
    ]_vars

\* C1 happens: a write of the text a file already holds, at a later time than the
\* file's, was skipped and the file kept its older modification time
WriteSkippedOlderFile ==
    /\ last.op = "write"
    /\ last.result = "SKIPPED"
    /\ last.before = File(last.text, 0)
    /\ fs[last.path] = File(last.text, 0)
    /\ clock > 0

(***************************************************************************)
(* Properties of convertOneNotebook and run (Spec).                         *)
(***************************************************************************)
\* the step left every file and directory as it was and did not run the converter
NothingDone ==
    /\ ~last'.nbconvert
    /\ last'.written = {}
    /\ fs' = fs
    /\ dirs' = dirs

SkippedExactlyWhenNewer ==
    [][(Called("convert") /\ ~IsCheckpoint(last'.path) /\ Exists(last'.path)) =>
        LET p == last'.path
            rst == rstFilePath[p]
        IN  IF fs[rst].exists /\ fs[rst].mtime > fs[p].mtime
            THEN last'.result = "False" /\ NothingDone
            ELSE /\ last'.result = "True"
                 /\ last'.nbconvert
                 /\ rst \in last'.written
                 /\ fs'[rst].exists
                 /\ fs'[rst].mtime = clock
                 /\ \E raw \in ConverterOutputs : fs'[rst].content = RewrittenText[p][raw]
    ]_vars

\* C4 happens: an output as old as its notebook was converted again
EqualTimesConverted ==
    /\ last.op = "convert"
    /\ last.result = "True"
    /\ last.before.exists
    /\ Exists(last.path)
    /\ last.before.mtime = fs[last.path].mtime

\* C9: run takes the notebooks in enumeration order and prints one line for each one it
\* gets through: WROTE exactly when convertOneNotebook returned True, and then after the
\* notebook's cleanup, SKIPPED otherwise; no skipped notebook is cleaned up; and once a
\* notebook raises, no later notebook is converted or reported.
RunReportsEachNotebook ==
    /\ [](/\ Len(out) = runIndex
          /\ Len(returned) \in {runIndex, runIndex + 1}
          /\ Len(returned) <= Len(NotebookPaths)
          /\ \A i \in 1..Len(out) :
                /\ out[i].path = NotebookPaths[i]
                /\ out[i].kind \in {"WROTE", "SKIPPED"}
                /\ (out[i].kind = "WROTE") <=> (returned[i] = "True")
                /\ (out[i].kind = "WROTE") => NotebookPaths[i] \in cleaned
          /\ \A i \in 1..Len(returned) :
                /\ (NotebookPaths[i] \in cleaned) => returned[i] = "True"
                /\ (returned[i] = "raise") => (i = Len(returned) /\ runPc = "aborted")
          /\ (runPc = "aborted") => Len(returned) = Len(out) + 1
          /\ (runPc = "done") => Len(out) = Len(NotebookPaths))
    /\ [][(runPc = "aborted") =>
            (\/ (out' = out /\ returned' = returned /\ fs' = fs /\ dirs' = dirs
                 /\ runPc' = "aborted")
             \/ runPc' = "idle")
       ]_vars

\* C9 happens: the first notebook was converted, cleaned up and reported, the checkpoint
\* was skipped, and the third raised
RunAbortedAtThird ==
    /\ runPc = "aborted"
    /\ Len(out) = 2
    /\ out[1] = Printed("WROTE", NotebookPaths[1])
    /\ out[2] = Printed("SKIPPED", NotebookPaths[2])
    /\ returned = <<"True", "False", "raise">>
    /\ cleaned = {NotebookPaths[1]}

(***************************************************************************)
(* Properties of the line rewriting (SpecT).                                *)
(***************************************************************************)
PromptExample == <<<<"I", "n", "[", "1", "]", ":">>,
                   <<"c", "o", "d", "e">>,
                   <<"r", "e", "s", "u", "l", "t">>>>

\* C5: a line under the cursor that matches the input prompt is dropped with the line
\* after it, whatever that line holds, and the scan goes on two lines further; on the
\* last raw line this ends the scan.  The raw lines "In[1]:", "code", "result" of unit u
\* give the anchor line and "result".
PromptDropsTwoLines ==
    /\ [][(Scanning /\ IsPrompt(CurrentLine)) =>
            /\ newLines' = newLines
            /\ currentLineNumber' = currentLineNumber + 2
            /\ pc' = "scan"
            /\ (currentLineNumber + 1 = Len(oldLines)) => ~Scanning'
       ]_vars
    /\ []((/\ pc = "done"
           /\ oldLines = PromptExample
           /\ notebookFileNameWithoutExtension = <<"u">>)
          => lines = <<<<".", ".", " ", "_", "u", ":">>,
                       <<"r", "e", "s", "u", "l", "t">>>>)

\* C5 happens: the example has been rewritten
PromptExampleDone ==
    /\ pc = "done"
    /\ oldLines = PromptExample
    /\ notebookFileNameWithoutExtension = <<"u">>
    /\ Len(lines) = 2

\* C6: a line under the cursor that begins with the image directive is consumed alone
\* and gives one line: the directive with <unit>_files/ before the file name when the
\* file name holds no '/', and the line as it is when it does.
ImagePathRewritten ==
    [][(Scanning /\ StartsWith(CurrentLine, ImageDirective)) =>
        LET fileName == SubSeq(CurrentLine, Len(ImageDirective) + 1, Len(CurrentLine))
            inAssets == ImageDirective \o notebookFileNameWithoutExtension
                            \o <<"_", "f", "i", "l", "e", "s", "/">> \o fileName
        IN  /\ currentLineNumber' = currentLineNumber + 1
            /\ newLines' = Append(newLines, IF Contains(fileName, <<"/">>)
                                            THEN CurrentLine
                                            ELSE inAssets)
    ]_vars

\* C6 happens: both image lines of the example have been through the scan
ImageLinesDone ==
    /\ pc = "done"
    /\ notebookFileNameWithoutExtension = <<"u">>
    /\ oldLines = <<<<".", ".", " ", "i", "m", "a", "g", "e", ":", ":", " ", "f", "o", "o", ".", "p", "n", "g">>,
                    <<".", ".", " ", "i", "m", "a", "g", "e", ":", ":", " ", "s", "u", "b", "/", "f", "o", "o", ".", "p", "n", "g">>>>
    /\ lines = <<<<".", ".", " ", "_", "u", ":">>,
                 <<".", ".", " ", "i", "m", "a", "g", "e", ":", ":", " ", "u", "_", "f", "i", "l", "e", "s", "/", "f", "o", "o", ".", "p", "n", "g">>,
                 <<".", ".", " ", "i", "m", "a", "g", "e", ":", ":", " ", "s", "u", "b", "/", "f", "o", "o", ".", "p", "n", "g">>>>

\* C7: in the output, every line that holds the parsed-literal marker is followed at
\* once by the line '   :class: ipython-result'.
ParsedLiteralClassified ==
    \A i \in 1..Len(lines) :
        Contains(lines[i], ParsedLiteralMarker) =>
            (i < Len(lines) /\ lines[i + 1] = ResultClassLine)

\* C7 happens: a raw parsed-literal line came through, not as the last raw line
ParsedLiteralDone ==
    /\ pc = "done"
    /\ Len(oldLines) = 2
    /\ Contains(oldLines[1], ParsedLiteralMarker)
    /\ HasText(oldLines[2])
    /\ Len(lines) = 4

\* the blank-line step inserted a blank line before second
BlankInserted(second) ==
    /\ Len(lines') >= Len(lines) + 2
    /\ lines'[Len(lines) + 1] = BlankLine
    /\ lines'[Len(lines) + 2] = second

\* the blank-line step appended second with nothing before it
NothingInserted(second) ==
    /\ Len(lines') >= Len(lines) + 1
    /\ lines'[Len(lines) + 1] = second
    /\ ~BlankInserted(second)

\* the blank-line loop is on a pair
OnPair == pc = "pairs" /\ pairIndex + 1 < Len(newLines)

\* C8 as stated: a blank line is inserted between first and second whenever first
\* begins with whitespace and second is non-blank and not indented, and for no other
\* pair.
BlankAfterEveryIndent ==
    [][OnPair =>
        LET first == newLines[pairIndex + 1]
            second == newLines[pairIndex + 2]
        IN  IF Indented(first) /\ HasText(second) /\ ~Indented(second)
            THEN BlankInserted(second)
            ELSE NothingInserted(second)
    ]_vars

IndentExample == <<<<" ", " ", " ", " ", "c", "o", "d", "e">>,
                   <<"N", "e", "x", "t", " ", "p", "a", "r", "a", "g", "r", "a", "p", "h">>>>

\* C8 amended: a blank line is inserted between first and second whenever first is
\* non-blank and begins with whitespace and second is non-blank and not indented, and
\* for no other pair.  "    code" followed by "Next paragraph" gives "    code", "",
\* "Next paragraph".
BlankAfterIndentedText ==
    /\ [][OnPair =>
            LET first == newLines[pairIndex + 1]
                second == newLines[pairIndex + 2]
            IN  IF HasText(first) /\ Indented(first) /\ HasText(second) /\ ~Indented(second)
                THEN BlankInserted(second)
                ELSE NothingInserted(second)
       ]_vars
    /\ []((pc = "done" /\ oldLines = IndentExample) =>
            SubSeq(lines, 2, Len(lines)) = <<IndentExample[1], BlankLine, IndentExample[2]>>)

\* C8 happens: the example has been rewritten, with its blank line
IndentExampleDone ==
    /\ pc = "done"
    /\ oldLines = IndentExample
    /\ Len(lines) = 4
    /\ lines[3] = BlankLine

\* C10: the output begins with the anchor line of the unit, and nowhere in it, the
\* inserted ':class: ipython-result' lines included, is a non-blank line that begins
\* with whitespace followed at once by a non-blank line that does not.
BlankAfterLiteralBlocks ==
    (pc = "done") =>
        /\ lines[1] = AnchorLine(notebookFileNameWithoutExtension)
        /\ \A i \in 1..(Len(lines) - 1) :
              ~(/\ HasText(lines[i]) /\ Indented(lines[i])
                /\ HasText(lines[i + 1]) /\ ~Indented(lines[i + 1]))

=============================================================================
